---- MODULE Spec2Model ----
(***************************************************************************)
(* Model of lib/rest-model.js (loopback-connector-rest with options):      *)
(* the RestResource CRUD facade, the response normalizer wrap(cb) and the  *)
(* operation-spec loader defineFunctions().                                *)
(***************************************************************************)
EXTENDS Integers, Sequences, FiniteSets, TLC

VARIABLES
    _url,       \* this._url: the collection URL of the resource
    request,    \* this.request: the transport function reference
    calls,      \* the CRUD calls issued so far, in order of issue
    thrown,     \* TRUE once this layer has thrown during a CRUD call
    spec,       \* the operation spec document read by defineFunctions
    loader      \* the progress and result of defineFunctions

vars == <<_url, request, calls, thrown, spec, loader>>

----------------------------------------------------------------------------
(* JavaScript values.  Every value carries its type tag; the payload field *)
(* has a different name per type so values of different types compare.     *)

Undefined == [t |-> "undefined"]
Null == [t |-> "null"]
Num(n) == [t |-> "number", n |-> n]
Str(s) == [t |-> "string", s |-> s]
Fn(f) == [t |-> "function", f |-> f]
\* An object literal: its own properties as a sequence of <<key, value>>.
Obj(props) == [t |-> "object", props |-> props]
EmptyObj == Obj(<<>>)

\* ToBoolean: undefined, null, 0 and '' are falsy; objects and functions truthy.
Truthy(v) ==
    CASE v.t = "undefined" -> FALSE
      [] v.t = "null" -> FALSE
      [] v.t = "number" -> v.n # 0
      [] v.t = "string" -> v.s # ""
      [] OTHER -> TRUE

\* a && b and a || b on already evaluated operands.
And(a, b) == IF Truthy(a) THEN b ELSE a
Or(a, b) == IF Truthy(a) THEN a ELSE b

\* String(v), as applied by '/' + id.
JsToString(v) ==
    CASE v.t = "undefined" -> "undefined"
      [] v.t = "null" -> "null"
      [] v.t = "number" -> ToString(v.n)
      [] v.t = "string" -> v.s
      [] v.t = "function" -> "function () {}"
      [] OTHER -> "[object Object]"

\* JSON text of a primitive property value.
JsonAtom(v) ==
    CASE v.t = "number" -> ToString(v.n)
      [] v.t = "string" -> "\"" \o v.s \o "\""
      [] OTHER -> "null"

RECURSIVE JsonProps(_)
JsonProps(props) ==
    IF props = <<>> THEN ""
    ELSE LET p == Head(props)
             rest == Tail(props)
         IN  "\"" \o p[1] \o "\":" \o JsonAtom(p[2])
               \o (IF rest = <<>> THEN "" ELSE "," \o JsonProps(rest))

\* JSON.stringify(v): a string, or undefined for a function or undefined.
JSONstringify(v) ==
    CASE v.t = "object" -> Str("{" \o JsonProps(v.props) \o "}")
      [] v.t = "function" -> Undefined
      [] v.t = "undefined" -> Undefined
      [] OTHER -> Str(JsonAtom(v))

\* o.f on a record-shaped object: undefined when the property is missing.
Get(o, f) == IF f \in DOMAIN o THEN o[f] ELSE Undefined

----------------------------------------------------------------------------
(* RestResource(pluralModelName, baseUrl, requestFunc).  The guard         *)
(* `!this instanceof RestResource` is `false instanceof ...`, never taken. *)

LastChar(s) == IF s = "" THEN "" ELSE SubSeq(s, Len(s), Len(s))

RestResource(pluralModelName, baseUrl, requestFunc) ==
    [ _url |-> IF LastChar(baseUrl) = "/"
               THEN baseUrl \o pluralModelName
               ELSE baseUrl \o "/" \o pluralModelName,
      request |-> Or(requestFunc, Fn("request")) ]

----------------------------------------------------------------------------
(* wrap(cb): the response normalizer.                                      *)

\* The status code from which a response counts as an HTTP error.
HttpErrorFloor == 400

\* The closure wrap returns for a truthy cb; it captures cb.
Wrapper(cb) == [t |-> "wrapper", cb |-> cb]

\* One invocation cb(err, result, response) made by the wrapper.
Invocation(cb, err, result, response) ==
    [cb |-> cb, err |-> err, result |-> result, response |-> response]

\* The error object built for a response whose status is an HTTP error.
HttpError(response, body) ==
    LET errObj == [t |-> "error",
                   message |-> "HTTP code: " \o ToString(response.statusCode),
                   statusCode |-> response.statusCode]
        withBody == IF Truthy(body) THEN errObj @@ [body |-> body] ELSE errObj
    IN  IF Truthy(Get(response, "headers"))
        THEN withBody @@ [headers |-> response.headers]
        ELSE withBody

\* Mutant: the test is `statusCode > 400`, so status 400 passes as success.
WrappedCall_StrictlyAbove(cb, err, response, body) ==
    IF ~Truthy(err) /\ Truthy(response)
         /\ response.statusCode > HttpErrorFloor
    THEN << Invocation(cb, HttpError(response, body), Null, response) >>
    ELSE << Invocation(cb, err, body, response) >>

\* Mutant: the transport's (err, response, body) reach cb in that order.
WrappedCall_Unswapped(cb, err, response, body) ==
    IF ~Truthy(err) /\ Truthy(response)
         /\ response.statusCode >= HttpErrorFloor
    THEN << Invocation(cb, HttpError(response, body), Null, response) >>
    ELSE << Invocation(cb, err, response, body) >>

\* Mutant: the error branch lacks its `return` and falls through to the
\* pass-through call.
WrappedCall_FallThrough(cb, err, response, body) ==
    IF ~Truthy(err) /\ Truthy(response)
         /\ response.statusCode >= HttpErrorFloor
    THEN << Invocation(cb, HttpError(response, body), Null, response),
            Invocation(cb, err, body, response) >>
    ELSE << Invocation(cb, err, body, response) >>

\* The body of the wrapper, function(err, response, body): the invocations
\* of the captured cb it makes, in order.  Each branch returns after one.
WrappedCall(cb, err, response, body) ==
    IF ~Truthy(err) /\ Truthy(response)
         /\ response.statusCode >= HttpErrorFloor
    THEN << Invocation(cb, HttpError(response, body), Null, response) >>
    ELSE << Invocation(cb, err, body, response) >>

\* Mutant: the wrapper is built whether or not cb is given.
wrap_Always(cb) == Wrapper(cb)

\* Mutant: the wrapper calls one continuation kept outside the closure, the
\* first call's, instead of the one it was built for.
wrap_Shared(cb) == IF Truthy(cb) THEN Wrapper(Fn(1)) ELSE cb

wrap(cb) == IF Truthy(cb) THEN Wrapper(cb) ELSE cb

\* _req(obj): logs the descriptor when debugging is enabled, returns it.
_req(obj) == obj

\* The `options` header of every descriptor: options && JSON.stringify(options).
OptionsHeader(options) == [options |-> And(options, JSONstringify(options))]

----------------------------------------------------------------------------
(* The two arguments each CRUD method hands to this._request.              *)

createRequest(url, body, options, cb) ==
    [ desc |-> _req([method |-> "POST", uri |-> url, json |-> TRUE,
                     body |-> body, headers |-> OptionsHeader(options)]),
      callback |-> wrap(cb) ]

updateRequest(url, id, body, options, cb) ==
    [ desc |-> _req([method |-> "PUT", uri |-> url \o "/" \o JsToString(id),
                     json |-> TRUE, body |-> body,
                     headers |-> OptionsHeader(options)]),
      callback |-> wrap(cb) ]

deleteRequest(url, id, options, cb) ==
    [ desc |-> _req([method |-> "DELETE",
                     uri |-> url \o "/" \o JsToString(id), json |-> TRUE,
                     headers |-> OptionsHeader(options)]),
      callback |-> wrap(cb) ]

deleteAllRequest(url, options, cb) ==
    [ desc |-> _req([method |-> "DELETE", uri |-> url, json |-> TRUE,
                     headers |-> OptionsHeader(options)]),
      callback |-> wrap(cb) ]

\* Mutant: the id suffix is appended whether or not id is truthy.
findRequest_AlwaysId(url, id, filter, options, cb) ==
    [ desc |-> _req([method |-> "GET",
                     uri |-> url \o "/" \o JsToString(id),
                     json |-> TRUE, qs |-> [filter |-> filter],
                     headers |-> OptionsHeader(options)]),
      callback |-> wrap(cb) ]

findRequest(url, id, filter, options, cb) ==
    [ desc |-> _req([method |-> "GET",
                     uri |-> url \o (IF Truthy(id)
                                     THEN "/" \o JsToString(id) ELSE ""),
                     json |-> TRUE, qs |-> [filter |-> filter],
                     headers |-> OptionsHeader(options)]),
      callback |-> wrap(cb) ]

\* all / query: `q = q || {}`, then the shorthand test, which moves the
\* callback out of the options slot and resets q to {}.
queryRequest(url, q, options, cb) ==
    LET shorthand == ~Truthy(cb) /\ options.t = "function"
        cb1 == IF shorthand THEN options ELSE cb
        q1 == IF shorthand THEN EmptyObj ELSE Or(q, EmptyObj)
    IN  [ desc |-> _req([method |-> "GET", uri |-> url, json |-> TRUE,
                         qs |-> [filter |-> q1],
                         headers |-> OptionsHeader(options)]),
          callback |-> wrap(cb1) ]

----------------------------------------------------------------------------
(* The transport entry point this._request(desc, callback) and the         *)
(* transport's completion of a request.                                    *)

\* this._request: hands the descriptor and the callback to the transport;
\* the request is then in flight until the transport completes it.
_request(method, args, req) ==
    /\ calls' = Append(calls, [method |-> method, args |-> args,
                               desc |-> req.desc, callback |-> req.callback,
                               via |-> request, state |-> "inflight",
                               reply |-> <<>>, got |-> <<>>])
    /\ UNCHANGED <<_url, request, thrown, spec, loader>>

\* The transport completes request i, calling the callback it was handed
\* with (err, response, body) once.  A callback that is no function (the
\* caller omitted the continuation) cannot be called.  A wrapper calling a
\* captured cb that is no function throws a TypeError.
Respond(i, err, response, body) ==
    /\ i \in 1..Len(calls)
    /\ calls[i].state = "inflight"
    /\ LET callback == calls[i].callback
           made == IF callback.t = "wrapper"
                   THEN WrappedCall(callback.cb, err, response, body)
                   ELSE <<>>
           ok == SelectSeq(made, LAMBDA v : v.cb.t = "function")
       IN  /\ calls' = [calls EXCEPT ![i].state = "done",
                                     ![i].reply = <<err, response, body>>,
                                     ![i].got = ok]
           /\ thrown' = (thrown \/ Len(ok) < Len(made))
    /\ UNCHANGED <<_url, request, spec, loader>>

----------------------------------------------------------------------------
(* The CRUD methods of RestResource.prototype.                             *)

create(body, options, cb) ==
    _request("create", <<body, options, cb>>,
             createRequest(_url, body, options, cb))

update(id, body, options, cb) ==
    _request("update", <<id, body, options, cb>>,
             updateRequest(_url, id, body, options, cb))

delete(id, options, cb) ==
    _request("delete", <<id, options, cb>>,
             deleteRequest(_url, id, options, cb))

deleteAll(options, cb) ==
    _request("deleteAll", <<options, cb>>,
             deleteAllRequest(_url, options, cb))

find(id, filter, options, cb) ==
    _request("find", <<id, filter, options, cb>>,
             findRequest(_url, id, filter, options, cb))

query(q, options, cb) ==
    _request("query", <<q, options, cb>>,
             queryRequest(_url, q, options, cb))

----------------------------------------------------------------------------
(* defineFunctions(): loads the operation spec (rest-crud.json) and        *)
(* compiles every operation template into its named functions.             *)

\* var requestFunc = this.request, evaluated at module level, where `this`
\* is the initial exports object, which has no `request` property.
requestFunc == Undefined

\* Mutant: the check of op.template is left out.
TemplateMissing_Unchecked(op) == FALSE

\* !op.template
TemplateMissing(op) == ~Truthy(Get(op, "template"))

\* new Error(g.f('The operation template is missing: %j', op))
MissingTemplateError(op) ==
    [t |-> "error", message |-> "The operation template is missing: %j",
     op |-> op]

\* RequestBuilder.compile(template, requestFunc), of rest-builder.js: a
\* builder for the template; a template without method or url is refused.
compile(template, req) ==
    IF Truthy(template) /\ "method" \in DOMAIN template
         /\ "url" \in DOMAIN template
    THEN [t |-> "builder", template |-> template, request |-> req]
    ELSE [t |-> "error", message |-> "ConfigurationError"]

\* builder.operation(argSpec), of rest-builder.js: the invocable function
\* of one named sub-operation of the template.
operation(builder, argSpec) ==
    [t |-> "function", f |-> "operation", template |-> builder.template,
     argSpec |-> argSpec]

\* for (var f in functions) functions[f] = builder.operation(functions[f]):
\* the op's own `functions` object is rewritten in place.
BindFunctions(op, builder) ==
    IF Truthy(Get(op, "functions"))
    THEN [op EXCEPT !.functions =
            Obj([k \in 1..Len(op.functions.props) |->
                  << op.functions.props[k][1],
                     operation(builder, op.functions.props[k][2]) >>])]
    ELSE op

\* spec.operations.forEach(...): the operations as left by the loop and the
\* error that ended it, if any.  The loop stops at the first throw, leaving
\* the operations before it compiled and the rest untouched.
RECURSIVE forEachOp(_)
forEachOp(ops) ==
    IF ops = <<>> THEN [ops |-> <<>>, error |-> Null]
    ELSE LET op == Head(ops)
             builder == compile(Get(op, "template"), requestFunc)
         IN  IF TemplateMissing(op)
             THEN [ops |-> ops, error |-> MissingTemplateError(op)]
             ELSE IF builder.t = "error"
             THEN [ops |-> ops, error |-> builder]
             ELSE LET rest == forEachOp(Tail(ops))
                  IN  [ops |-> <<BindFunctions(op, builder)>> \o rest.ops,
                       error |-> rest.error]

\* defineFunctions(): runs to completion or throws.  The outer `functions`
\* object is shadowed inside the loop, so the value returned is always {}.
defineFunctions ==
    /\ loader.status = "unloaded"
    /\ LET r == forEachOp(spec.operations)
       IN  /\ spec' = [spec EXCEPT !.operations = r.ops]
           /\ loader' = [loader EXCEPT
                           !.status = IF r.error = Null
                                      THEN "returned" ELSE "thrown",
                           !.error = r.error,
                           !.returned = IF r.error = Null
                                        THEN EmptyObj ELSE Undefined,
                           !.atLoad = loader.invocations]
    /\ UNCHANGED <<_url, request, calls, thrown>>

\* The positions of the entries of op.functions.
FunctionIndexes(op) ==
    IF Truthy(Get(op, "functions")) THEN 1..Len(op.functions.props) ELSE {}

\* A caller invokes the compiled function bound as function k of operation i.
invokeOperation(i, k) ==
    /\ i \in 1..Len(spec.operations)
    /\ k \in FunctionIndexes(spec.operations[i])
    /\ spec.operations[i].functions.props[k][2].t = "function"
    /\ loader' = [loader EXCEPT !.invocations = @ + 1]
    /\ UNCHANGED <<_url, request, calls, thrown, spec>>

----------------------------------------------------------------------------
(* Inputs: constructor arguments, call arguments, transport outcomes and   *)
(* operation specs.                                                        *)

MaxCalls == 2        \* calls issued on one resource, all possibly in flight
MaxOps == 2          \* operations in the operation spec
MaxInvocations == 2  \* invocations of compiled functions

PluralModelNames == {"widgets"}
BaseUrls == {"http://api.example.com", "http://api.example.com/"}
RequestFuncs == {Undefined, Fn("customRequest")}

NameX == Obj(<< <<"name", Str("x")>> >>)
UserCtx == Obj(<< <<"user", Num(1)>> >>)

Ids == {Undefined, Num(0), Str(""), Num(7), Str("a1")}
Bodies == {NameX}
OptionsArgs == {Undefined, Null, EmptyObj, UserCtx}
Filters == {Undefined, EmptyObj, NameX}
Continuations == {Fn("cb")}
Callbacks == {Undefined, Null} \cup Continuations

StatusCodes == {200, 399, 400, 404}
TransportError == [t |-> "error", message |-> "ECONNREFUSED"]
ResponseHeaders == Obj(<< <<"content-type", Str("application/json")>> >>)
Response(code, hasHeaders) ==
    IF hasHeaders
    THEN [t |-> "response", statusCode |-> code, headers |-> ResponseHeaders]
    ELSE [t |-> "response", statusCode |-> code]
Responses ==
    {Undefined} \cup {Response(c, h) : c \in StatusCodes, h \in BOOLEAN}
ResponseBodies == {Undefined, Str(""), Obj(<< <<"id", Num(1)>> >>)}
Outcomes == {Null, TransportError} \X Responses \X ResponseBodies

\* The inputs of the specification of concurrent calls: the i-th call is
\* given its own continuation Fn(i), or none.
OwnCallbacks(i) == {Undefined, Fn(i)}
FewIds == {Num(7)}
FewOptions == {UserCtx}
FewFilters == {NameX}
FewOutcomes ==
    { <<TransportError, Undefined, Undefined>>,
      <<Null, Response(404, TRUE), Obj(<< <<"error", Str("gone")>> >>)>>,
      <<TransportError, Response(404, FALSE), Undefined>>,
      <<Null, Response(400, FALSE), Undefined>>,
      <<Null, Response(200, TRUE), Obj(<< <<"id", Num(1)>> >>)>> }

Template == [t |-> "object", method |-> "GET", url |-> "/{id}"]
OpFunctions ==
    { Obj(<< <<"findById", Str("id")>> >>),
      Obj(<< <<"findById", Str("id")>>, <<"exists", Str("id")>> >>) }
Operations ==
    {[template |-> Template], [template |-> Null]}
      \cup {[template |-> Template, functions |-> f] : f \in OpFunctions}
      \cup {[template |-> Null, functions |-> f] : f \in OpFunctions}
      \cup {[functions |-> f] : f \in OpFunctions}
OperationLists ==
    UNION {[1..n -> Operations] : n \in 0..MaxOps}
CrudSpecs == [debug : BOOLEAN, operations : OperationLists]

Unloaded ==
    [status |-> "unloaded", error |-> Null, returned |-> Undefined,
     invocations |-> 0, atLoad |-> 0]

----------------------------------------------------------------------------
(* Specifications.                                                         *)

\* A resource as its constructor leaves it, no call issued, nothing loaded.
Constructed ==
    /\ \E p \in PluralModelNames, b \in BaseUrls, rf \in RequestFuncs :
         /\ _url = RestResource(p, b, rf)._url
         /\ request = RestResource(p, b, rf).request
    /\ calls = <<>>
    /\ thrown = FALSE

Init ==
    /\ Constructed
    /\ spec = [debug |-> FALSE, operations |-> <<>>]
    /\ loader = Unloaded

\* Up to MaxCalls calls on one resource, completed by the transport in any
\* order.  The i-th call is given its own continuation, or none.
Next ==
    \/ /\ Len(calls) < MaxCalls
       /\ \E b \in Bodies, o \in FewOptions,
             cb \in OwnCallbacks(Len(calls) + 1) : create(b, o, cb)
    \/ /\ Len(calls) < MaxCalls
       /\ \E id \in FewIds, b \in Bodies, o \in FewOptions,
             cb \in OwnCallbacks(Len(calls) + 1) : update(id, b, o, cb)
    \/ /\ Len(calls) < MaxCalls
       /\ \E id \in FewIds, o \in FewOptions,
             cb \in OwnCallbacks(Len(calls) + 1) : delete(id, o, cb)
    \/ /\ Len(calls) < MaxCalls
       /\ \E o \in FewOptions,
             cb \in OwnCallbacks(Len(calls) + 1) : deleteAll(o, cb)
    \/ /\ Len(calls) < MaxCalls
       /\ \E id \in FewIds, f \in FewFilters, o \in FewOptions,
             cb \in OwnCallbacks(Len(calls) + 1) : find(id, f, o, cb)
    \/ /\ Len(calls) < MaxCalls
       /\ \E q \in FewFilters, o \in FewOptions,
             cb \in OwnCallbacks(Len(calls) + 1) : query(q, o, cb)
    \/ \E i \in 1..Len(calls), o \in FewOutcomes :
         Respond(i, o[1], o[2], o[3])

Spec == Init /\ [][Next]_vars

\* One call with arguments and a transport outcome from the full input sets.
\* query is also called in its shorthand form, the continuation in the
\* options slot.
NextCall ==
    \/ /\ calls = <<>>
       /\ \E b \in Bodies, o \in OptionsArgs, cb \in Callbacks :
            create(b, o, cb)
    \/ /\ calls = <<>>
       /\ \E id \in Ids, b \in Bodies, o \in OptionsArgs, cb \in Callbacks :
            update(id, b, o, cb)
    \/ /\ calls = <<>>
       /\ \E id \in Ids, o \in OptionsArgs, cb \in Callbacks :
            delete(id, o, cb)
    \/ /\ calls = <<>>
       /\ \E o \in OptionsArgs, cb \in Callbacks : deleteAll(o, cb)
    \/ /\ calls = <<>>
       /\ \E id \in Ids, f \in Filters, o \in OptionsArgs, cb \in Callbacks :
            find(id, f, o, cb)
    \/ /\ calls = <<>>
       /\ \E q \in Filters, o \in OptionsArgs \cup Continuations,
             cb \in Callbacks : query(q, o, cb)
    \/ \E i \in 1..Len(calls), o \in Outcomes :
         Respond(i, o[1], o[2], o[3])

SpecCall == Init /\ [][NextCall]_vars

\* The operation spec is loaded and its compiled functions are invoked.
InitLoad ==
    /\ Constructed
    /\ spec \in CrudSpecs
    /\ loader = Unloaded

NextLoad ==
    \/ defineFunctions
    \/ /\ loader.invocations < MaxInvocations
       /\ \E i \in 1..Len(spec.operations) :
            \E k \in FunctionIndexes(spec.operations[i]) :
              invokeOperation(i, k)

SpecLoad == InitLoad /\ [][NextLoad]_vars

----------------------------------------------------------------------------
(* Properties.                                                             *)

\* The continuation the caller supplied: the last argument, or for query
\* called in its shorthand form the function in the options slot.
Continuation(c) ==
    IF c.method = "query" /\ ~Truthy(c.args[3]) /\ c.args[2].t = "function"
    THEN c.args[2]
    ELSE c.args[Len(c.args)]

\* The options argument of a call.
OptionsOf(c) ==
    CASE c.method \in {"create", "delete", "query"} -> c.args[2]
      [] c.method \in {"update", "find"} -> c.args[3]
      [] OTHER -> c.args[1]

\* The calls the transport has completed whose caller gave a continuation.
Answered ==
    {i \in 1..Len(calls) :
       calls[i].state = "done" /\ Continuation(calls[i]).t = "function"}

ReplyErr(i) == calls[i].reply[1]
ReplyResponse(i) == calls[i].reply[2]
ReplyBody(i) == calls[i].reply[3]

\* null or undefined
Nullish(v) == v.t \in {"null", "undefined"}

\* C1: whenever the transport reports an error e, whatever response and body
\* come with it, the continuation receives (e, null, response): the error
\* unchanged and no result.
C1_TransportErrorHasNullResult ==
    \A i \in Answered :
       Truthy(ReplyErr(i)) =>
         /\ Len(calls[i].got) = 1
         /\ calls[i].got[1].err = ReplyErr(i)
         /\ Nullish(calls[i].got[1].result)
         /\ calls[i].got[1].response = ReplyResponse(i)

\* C2: query(q, cb), the continuation in the options slot, hands the
\* transport the same descriptor and the same callback as
\* query(q, undefined, cb).
C2_ShorthandQueryEquivalent ==
    \A i \in 1..Len(calls) :
       LET c == calls[i]
       IN  (c.method = "query" /\ c.args[2].t = "function"
              /\ c.args[3] = Undefined) =>
             /\ c.desc = queryRequest(_url, c.args[1], Undefined,
                                      c.args[2]).desc
             /\ c.callback = queryRequest(_url, c.args[1], Undefined,
                                          c.args[2]).callback

\* C3: a response with status c >= 400 and no transport error reaches the
\* continuation as (derivedError, null, response), the error carrying
\* statusCode c, message "HTTP code: " + c, the body when there is one
\* (a truthy body) and the response headers when there are any.
C3_HttpStatusBecomesError ==
    \A i \in Answered :
       (~Truthy(ReplyErr(i)) /\ ReplyResponse(i) # Undefined
          /\ ReplyResponse(i).statusCode >= 400) =>
         /\ Len(calls[i].got) = 1
         /\ LET e == calls[i].got[1]
                c == ReplyResponse(i).statusCode
            IN  /\ e.cb = Continuation(calls[i])
                /\ e.result = Null
                /\ e.response = ReplyResponse(i)
                /\ e.err.t = "error"
                /\ e.err.statusCode = c
                /\ e.err.message = "HTTP code: " \o ToString(c)
                /\ Truthy(ReplyBody(i)) =>
                     Get(e.err, "body") = ReplyBody(i)
                /\ "headers" \in DOMAIN ReplyResponse(i) =>
                     Get(e.err, "headers") = ReplyResponse(i).headers

C3_Witness ==
    \E i \in Answered :
       /\ ReplyErr(i) = Null
       /\ ReplyResponse(i) = Response(400, TRUE)
       /\ Truthy(ReplyBody(i))
       /\ calls[i].got[1].err.statusCode = 400
       /\ calls[i].got[1].err.message = "HTTP code: 400"

\* C4: a response with status c < 400 and no transport error reaches the
\* continuation as (null, body, response): no error, the body unchanged as
\* the result, and the transport's response object.
C4_SuccessPassesBody ==
    \A i \in Answered :
       (ReplyErr(i) = Null /\ ReplyResponse(i) # Undefined
          /\ ReplyResponse(i).statusCode < 400) =>
         calls[i].got = << [cb |-> Continuation(calls[i]), err |-> Null,
                            result |-> ReplyBody(i),
                            response |-> ReplyResponse(i)] >>

C4_Witness ==
    \E i \in Answered :
       /\ ReplyErr(i) = Null
       /\ ReplyResponse(i) = Response(399, FALSE)
       /\ ReplyBody(i) = Obj(<< <<"id", Num(1)>> >>)
       /\ calls[i].got[1].result = ReplyBody(i)

\* C5: in every CRUD method the `options` header holds the JSON text of the
\* options argument when that argument is present, and the descriptor has
\* no `options` header at all when the argument is absent.
C5_AbsentOptionsHeaderOmitted ==
    \A i \in 1..Len(calls) :
       LET o == OptionsOf(calls[i])
           headers == calls[i].desc.headers
       IN  /\ o.t = "object" =>
                /\ "options" \in DOMAIN headers
                /\ headers.options = JSONstringify(o)
           /\ Nullish(o) => "options" \notin DOMAIN headers

\* C6: given a transport that calls the callback it was handed once, a call
\* made with a continuation invokes it exactly once, with a whole
\* (err, result, response) envelope: not at all while the request is in
\* flight, once when the transport has completed it, whichever branch the
\* normalizer takes.
C6_ContinuationExactlyOnce ==
    \A i \in 1..Len(calls) :
       Continuation(calls[i]).t = "function" =>
         /\ calls[i].state = "inflight" => calls[i].got = <<>>
         /\ calls[i].state = "done" =>
              /\ Len(calls[i].got) = 1
              /\ calls[i].got[1].cb = Continuation(calls[i])
              /\ DOMAIN calls[i].got[1] = {"cb", "err", "result", "response"}

C6_Witness ==
    /\ Len(calls) = MaxCalls
    /\ \A i \in 1..Len(calls) : i \in Answered /\ Len(calls[i].got) = 1
    /\ \E i \in Answered : ReplyErr(i) = TransportError
    /\ \E i \in Answered :
         ReplyErr(i) = Null /\ ReplyResponse(i).statusCode = 404

\* C7: find builds a GET descriptor whose uri is the collection URL when id
\* is falsy and collection URL + '/' + id when id is truthy; qs.filter is
\* the filter supplied, in both cases.
C7_FindUri ==
    \A i \in 1..Len(calls) :
       LET c == calls[i]
       IN  c.method = "find" =>
             /\ c.desc.method = "GET"
             /\ c.desc.uri = IF Truthy(c.args[1])
                             THEN _url \o "/" \o JsToString(c.args[1])
                             ELSE _url
             /\ c.desc.qs.filter = c.args[2]

C7_Witness ==
    \E i \in 1..Len(calls) :
       /\ calls[i].method = "find"
       /\ calls[i].args[1] = Num(0)
       /\ calls[i].args[2] = NameX
       /\ calls[i].desc.uri = "http://api.example.com/widgets"

\* C8: when the caller omits the continuation, wrap returns the omitted
\* value itself, the request is still handed to the transport, and whatever
\* the transport's outcome this layer invokes no continuation and throws
\* nothing.
C8_OmittedContinuation ==
    \A i \in 1..Len(calls) :
       ~Truthy(Continuation(calls[i])) =>
         /\ calls[i].callback = Continuation(calls[i])
         /\ calls[i].state \in {"inflight", "done"}
         /\ calls[i].via = request
         /\ calls[i].got = <<>>
         /\ ~thrown

C8_Witness ==
    \E i \in 1..Len(calls) :
       /\ Continuation(calls[i]) = Undefined
       /\ calls[i].state = "done"
       /\ ReplyErr(i) = Null
       /\ ReplyResponse(i) = Response(404, TRUE)
       /\ calls[i].got = <<>>

\* An operation entry without a template.
NoTemplate(op) == "template" \notin DOMAIN op \/ Nullish(op.template)

\* The entries of op.functions that are compiled functions.
CompiledIn(op) ==
    {k \in FunctionIndexes(op) : op.functions.props[k][2].t = "function"}

\* C9: an operation entry without a template is a fatal error of the load:
\* defineFunctions throws the missing-template error for the first such
\* entry, with no compiled function invoked before, and compiles nothing
\* from that entry on, so nothing is left to fail at a first invocation.
C9_MissingTemplateFailsLoad ==
    LET ops == spec.operations
        bad == {k \in 1..Len(ops) : NoTemplate(ops[k])}
    IN  bad # {} =>
          LET first == CHOOSE k \in bad : \A j \in bad : k <= j
          IN  /\ loader.status \in {"unloaded", "thrown"}
              /\ loader.status = "unloaded" => loader.invocations = 0
              /\ loader.status = "thrown" =>
                   /\ loader.error =
                        [t |-> "error",
                         message |-> "The operation template is missing: %j",
                         op |-> ops[first]]
                   /\ loader.atLoad = 0
              /\ \A j \in first..Len(ops) : CompiledIn(ops[j]) = {}

C9_Witness ==
    /\ loader.status = "thrown"
    /\ Len(spec.operations) = 2
    /\ CompiledIn(spec.operations[1]) # {}
    /\ NoTemplate(spec.operations[2])
    /\ Truthy(Get(spec.operations[2], "functions"))
    /\ loader.invocations > 0

\* The two arguments the method of call c hands to this._request, computed
\* from the call's own arguments and the resource as it is now.
RequestFor(c) ==
    CASE c.method = "create" ->
           createRequest(_url, c.args[1], c.args[2], c.args[3])
      [] c.method = "update" ->
           updateRequest(_url, c.args[1], c.args[2], c.args[3], c.args[4])
      [] c.method = "delete" ->
           deleteRequest(_url, c.args[1], c.args[2], c.args[3])
      [] c.method = "deleteAll" ->
           deleteAllRequest(_url, c.args[1], c.args[2])
      [] c.method = "find" ->
           findRequest(_url, c.args[1], c.args[2], c.args[3], c.args[4])
      [] OTHER ->
           queryRequest(_url, c.args[1], c.args[2], c.args[3])

\* Every envelope call i has delivered went to call i's own continuation
\* and was derived from the transport's reply to call i.
OwnEnvelopes(i) ==
    \A k \in 1..Len(calls[i].got) :
       LET e == calls[i].got[k]
       IN  /\ e.cb = Continuation(calls[i])
           /\ \A j \in 1..Len(calls) :
                j # i => e.cb # Continuation(calls[j])
           /\ e.response = ReplyResponse(i)
           /\ \/ e.err = ReplyErr(i) /\ e.result = ReplyBody(i)
              \/ /\ ReplyErr(i) = Null
                 /\ e.err.t = "error"
                 /\ e.err.statusCode = ReplyResponse(i).statusCode
                 /\ e.result = Null

\* C10: with any number of calls in flight on one resource, completed in
\* any order, each call's continuation receives the envelope derived from
\* the reply to its own request and never another call's; no step changes
\* the collection URL, the transport reference or the descriptor and
\* callback of a call already issued, so each call's descriptor is the one
\* its own arguments give.
C10_CallsIndependent ==
    /\ [](\A i \in 1..Len(calls) :
            /\ OwnEnvelopes(i)
            /\ calls[i].desc = RequestFor(calls[i]).desc
            /\ calls[i].via = request)
    /\ [][/\ _url' = _url
          /\ request' = request
          /\ \A i \in 1..Len(calls) :
               /\ calls'[i].desc = calls[i].desc
               /\ calls'[i].callback = calls[i].callback]_vars

C10_Witness ==
    /\ Len(calls) = 2
    /\ calls[1].state = "inflight"
    /\ Continuation(calls[1]) = Fn(1)
    /\ calls[2].state = "done"
    /\ Len(calls[2].got) = 1
    /\ calls[2].got[1].cb = Fn(2)
    /\ calls[2].method # calls[1].method

====
